---- MODULE Spec2Model ----
(***************************************************************************)
(* The bus-tracking frontend: the interval pollers of LiveTrackingPage,    *)
(* AdminBusListPage and EtaView, the one-shot fetches of MapView, and the  *)
(* coordinate normalisation of MapView (normalizePoint).                   *)
(*                                                                         *)
(* Spec      the views and their fetches as a state machine                *)
(* SpecNorm  normalizePoint applied to inputs drawn from bounded sets      *)
(***************************************************************************)
EXTENDS Integers, Sequences, FiniteSets, TLC

\* ------------------------------------------------------------------ bounds
\* requests issued over one run
MaxReq == 4
\* effect runs (mounts and busId changes) over one run
MaxMounts == 3
\* alias keys present for one coordinate of a raw point
MaxKeys == 2

\* ------------------------------------------------------------------ views
\* the routed components that fetch (App.js 997, 1003, 1004, 1005); the router
\* renders one of them at a time
Views == {"LiveTrackingPage", "AdminBusListPage", "EtaView", "MapView"}

\* the views that call axios.get, and those that call fetch().then(r => r.json())
AxiosViews == {"LiveTrackingPage", "AdminBusListPage"}

\* values of the :busId URL parameter ("/eta/:busId" never matches an empty one)
BusIds == {"X", "Y"}

\* what the backend can answer to one request:
\*   ok        2xx with a JSON body
\*   neterr    no response (network error)
\*   http_json non-2xx whose body is JSON (an error object)
\*   http_text non-2xx whose body is not JSON
\*   badbody   2xx whose body is not JSON
ResponseKinds == {"ok", "neterr", "http_json", "http_text", "badbody"}

\* the responses that are failed ticks: network error, non-2xx, parse error
Failures == ResponseKinds \ {"ok"}

\* ------------------------------------------------------------------ payloads
\* useState([]) / useState(null): the state before any result was applied
NoPayload == [kind |-> "init", seq |-> 0, gen |-> 0]

\* the parsed JSON body of the 2xx response to request r
Data(r) == [kind |-> "data", seq |-> r.seq, gen |-> r.gen]

\* the parsed JSON body of a non-2xx response to request r (an error object)
ErrBody(r) == [kind |-> "errbody", seq |-> r.seq, gen |-> r.gen]

\* the unparsed text of the response to request r
RawText(r) == [kind |-> "text", seq |-> r.seq, gen |-> r.gen]

\* a promise either resolves with a value or rejects
Resolved(v) == [settled |-> "resolved", value |-> v]
Rejected == [settled |-> "rejected", value |-> NoPayload]

\* axios.get(url): rejects without a response and on a non-2xx status
\* (validateStatus); response.data is the parsed body, or the body's text when
\* it does not parse (the default transformResponse swallows the parse error)
AxiosGet(kind, r) ==
  CASE kind = "ok" -> Resolved(Data(r))
    [] kind = "badbody" -> Resolved(RawText(r))
    [] OTHER -> Rejected

\* fetch(url).then((r) => r.json()): fetch rejects only without a response, a
\* non-2xx response resolves; r.json() rejects when the body does not parse
FetchJson(kind, r) ==
  CASE kind = "ok" -> Resolved(Data(r))
    [] kind = "http_json" -> Resolved(ErrBody(r))
    [] OTHER -> Rejected


\* ------------------------------------------------------------------ JS values
\* one degree, in the unit numbers are counted in (1e-7 degree)
Scale == 10 ^ 7

Undefined == [t |-> "undefined"]
Null == [t |-> "null"]
Bool(b) == [t |-> "boolean", b |-> b]
\* a finite number of n units, NaN, and +Infinity / -Infinity (sgn = 1 / -1)
Num(n) == [t |-> "number", k |-> "fin", n |-> n]
NaN == [t |-> "number", k |-> "nan", n |-> 0]
Infinity(sgn) == [t |-> "number", k |-> "inf", n |-> sgn]
\* a string is the sequence of its characters
Str(s) == [t |-> "string", s |-> s]
\* a plain object is the function from its own keys to their values
Obj(f) == [t |-> "object", f |-> f]
\* an array is the sequence of its elements
Arr(e) == [t |-> "array", e |-> e]

\* typeof v
TypeOf(v) ==
  IF v.t \in {"null", "object", "array"} THEN "object" ELSE v.t

\* !v
Falsy(v) ==
  \/ v.t \in {"undefined", "null"}
  \/ v.t = "boolean" /\ ~v.b
  \/ v.t = "number" /\ (v.k = "nan" \/ (v.k = "fin" /\ v.n = 0))
  \/ v.t = "string" /\ v.s = <<>>

\* o[k] for an object or array o and a string key k that is no array index
Get(o, k) ==
  IF o.t = "object" /\ k \in DOMAIN o.f THEN o.f[k] ELSE Undefined

\* Coalesce written with || in place of ??: a falsy value (0, "") is skipped too
RECURSIVE CoalesceFalsy(_, _, _)
CoalesceFalsy(o, keys, i) ==
  IF i >= Len(keys) THEN Get(o, keys[i])
  ELSE IF ~Falsy(Get(o, keys[i])) THEN Get(o, keys[i])
  ELSE CoalesceFalsy(o, keys, i + 1)

\* o[keys[i]] ?? o[keys[i+1]] ?? ... ?? o[keys[Len(keys)]]
RECURSIVE Coalesce(_, _, _)
Coalesce(o, keys, i) ==
  IF i >= Len(keys) THEN Get(o, keys[i])
  ELSE IF Get(o, keys[i]).t \notin {"undefined", "null"} THEN Get(o, keys[i])
  ELSE Coalesce(o, keys, i + 1)

\* the characters that are white space to trim() and to Number()
WhiteSpace == {" ", "\t"}
Digits == <<"0", "1", "2", "3", "4", "5", "6", "7", "8", "9">>
IsDigit(c) == \E d \in 1..10 : Digits[d] = c
DigitVal(c) == (CHOOSE d \in 1..10 : Digits[d] = c) - 1

\* s.trim()
RECURSIVE TrimLeft(_)
TrimLeft(s) ==
  IF s # <<>> /\ Head(s) \in WhiteSpace THEN TrimLeft(Tail(s)) ELSE s
RECURSIVE TrimRight(_)
TrimRight(s) ==
  IF s # <<>> /\ s[Len(s)] \in WhiteSpace
    THEN TrimRight(SubSeq(s, 1, Len(s) - 1)) ELSE s
Trim(s) == TrimRight(TrimLeft(s))

\* the value of the digit string s
RECURSIVE DigitsVal(_)
DigitsVal(s) ==
  IF s = <<>> THEN 0 ELSE 10 * DigitsVal(SubSeq(s, 1, Len(s) - 1)) + DigitVal(s[Len(s)])

\* the value in units of the fraction digits s (the digits after the seventh
\* are below one unit)
FracVal(s) ==
  LET d == SubSeq(s, 1, IF Len(s) < 7 THEN Len(s) ELSE 7) IN
  DigitsVal(d) * 10 ^ (7 - Len(d))

\* Number(s) for an unsigned decimal literal s: digits, digits.digits, digits.
\* or .digits; anything else is NaN
DecimalToNumber(s, sgn) ==
  LET dots == {i \in 1..Len(s) : s[i] = "."}
      dot == IF dots = {} THEN Len(s) + 1 ELSE CHOOSE i \in dots : TRUE
      int == SubSeq(s, 1, dot - 1)
      frac == SubSeq(s, dot + 1, Len(s))
  IN IF \/ Cardinality(dots) > 1
        \/ \E i \in 1..Len(s) : s[i] # "." /\ ~IsDigit(s[i])
        \/ int = <<>> /\ frac = <<>>
       THEN NaN
       ELSE Num(sgn * (DigitsVal(int) * Scale + FracVal(frac)))

\* Number(s) for a string s over digits, sign, point, white space, the word
\* Infinity and letters that start no numeric literal
StringToNumber(s) ==
  LET t == Trim(s)
      signed == t # <<>> /\ Head(t) \in {"-", "+"}
      sgn == IF signed /\ Head(t) = "-" THEN -1 ELSE 1
      body == IF signed THEN Tail(t) ELSE t
  IN IF t = <<>> THEN Num(0)
     ELSE IF body = <<"I", "n", "f", "i", "n", "i", "t", "y">> THEN Infinity(sgn)
     ELSE DecimalToNumber(body, sgn)

\* String(v) for an array element that is a string, null or undefined
ElemToString(v) == IF v.t = "string" THEN v.s ELSE <<>>

\* e.join(",")
RECURSIVE Join(_)
Join(e) ==
  IF e = <<>> THEN <<>>
  ELSE IF Len(e) = 1 THEN ElemToString(e[1])
  ELSE ElemToString(e[1]) \o <<",">> \o Join(Tail(e))

\* Number(v)
ToNumber(v) ==
  CASE v.t = "undefined" -> NaN
    [] v.t = "null" -> Num(0)
    [] v.t = "boolean" -> Num(IF v.b THEN Scale ELSE 0)
    [] v.t = "number" -> v
    [] v.t = "string" -> StringToNumber(v.s)
    [] v.t = "array" -> StringToNumber(Join(v.e))
    [] OTHER -> NaN

\* Math.abs(x) > b and Math.abs(x) <= b for a bound of b units; both are false
\* of NaN
AbsGt(x, b) == x.k = "inf" \/ (x.k = "fin" /\ (x.n > b \/ -x.n > b))
AbsLe(x, b) == x.k = "fin" /\ x.n <= b /\ -x.n <= b

\* ------------------------------------------------------------------ normalizePoint
LatKeys == <<"lat", "lat ", "latitude", "Latitude", "Lat">>
LngKeys == <<"lng", "lng ", "longitude", "Longitude", "Lng">>

\* the outcomes of a call
Point(lat, lng) == [kind |-> "point", lat |-> lat, lng |-> lng]
ReturnsNull == [kind |-> "null"]
Throws == [kind |-> "throw"]

\* typeof v === "string" ? v.trim() : v
TrimIfString(v) == IF v.t = "string" THEN Str(Trim(v.s)) ELSE v

\* SwapAndCheck without the bound on the longitude
SwapAndCheckLatOnly(lat, lng) ==
  LET swap == AbsGt(lat, 90 * Scale) /\ AbsLe(lng, 90 * Scale)
      lat2 == IF swap THEN lng ELSE lat
      lng2 == IF swap THEN lat ELSE lng
  IN IF AbsGt(lat2, 90 * Scale) THEN ReturnsNull ELSE Point(lat2, lng2)

\* SwapAndCheck swapping from |lat| >= 90 on
SwapAndCheckEager(lat, lng) ==
  LET swap == ~AbsLe(lat, 90 * Scale - 1) /\ AbsLe(lng, 90 * Scale)
      lat2 == IF swap THEN lng ELSE lat
      lng2 == IF swap THEN lat ELSE lng
  IN IF AbsGt(lat2, 90 * Scale) \/ AbsGt(lng2, 180 * Scale)
       THEN ReturnsNull
       ELSE Point(lat2, lng2)

\* SwapAndCheck with the swap decided by the longitude alone
SwapAndCheckLngOnly(lat, lng) ==
  LET swap == AbsLe(lng, 90 * Scale)
      lat2 == IF swap THEN lng ELSE lat
      lng2 == IF swap THEN lat ELSE lng
  IN IF AbsGt(lat2, 90 * Scale) \/ AbsGt(lng2, 180 * Scale)
       THEN ReturnsNull
       ELSE Point(lat2, lng2)

\* the swap of transposed fields, and the bounds check after it
SwapAndCheck(lat, lng) ==
  LET swap == AbsGt(lat, 90 * Scale) /\ AbsLe(lng, 90 * Scale)
      lat2 == IF swap THEN lng ELSE lat
      lng2 == IF swap THEN lat ELSE lng
  IN IF AbsGt(lat2, 90 * Scale) \/ AbsGt(lng2, 180 * Scale)
       THEN ReturnsNull
       ELSE Point(lat2, lng2)

\* the coercion of the two resolved values to numbers, and what follows it
CoerceAndCheck(lat0, lng0) ==
  LET lat == ToNumber(TrimIfString(lat0))
      lng == ToNumber(TrimIfString(lng0))
  IN IF lat.k = "nan" \/ lng.k = "nan" THEN ReturnsNull
     ELSE SwapAndCheck(lat, lng)

\* rawLat and rawLng: the first alias whose value is neither undefined nor
\* null, else the value of the last alias
ResolveLat(o) == Coalesce(o, LatKeys, 1)
ResolveLng(o) == Coalesce(o, LngKeys, 1)

normalizePoint(v) ==
  IF Falsy(v) \/ TypeOf(v) # "object" THEN ReturnsNull
  ELSE
    LET rawLat == ResolveLat(v)
        rawLng == ResolveLng(v)
        nested == rawLat.t = "undefined" /\ rawLng.t # "undefined"
                    /\ TypeOf(rawLng) = "object"
    IN IF nested /\ rawLng.t = "null" THEN Throws
       ELSE IF nested THEN CoerceAndCheck(Get(rawLng, "lat"), Get(rawLng, "lng"))
       ELSE CoerceAndCheck(rawLat, rawLng)

\* ------------------------------------------------------------------ state
VARIABLES
  page,      \* the mounted view, "none" when no fetching view is mounted
  inst,      \* the mounted component instance (0: none)
  gen,       \* the effect run whose cleanup is pending (0: none)
  busId,     \* EtaView: useParams().busId ("none" outside EtaView)
  timers,    \* the active setInterval timers
  inflight,  \* the requests issued and not yet settled
  nextSeq,   \* the number of the next request
  nextGen,   \* the number of the next effect run
  buses,     \* LiveTrackingPage / AdminBusListPage: useState([])
  etaData,   \* EtaView: useState(null)
  error,     \* EtaView: useState(null)
  rawBuses,  \* MapView: useState([])
  rawRoutes, \* MapView: useState([])
  lastResp,  \* the response settled last: [seq, kind]
  failedSeq, \* the latest request of the current effect run that failed (0: none)
  raw,       \* normalizePoint: the argument
  pc,        \* "input" before the call, "done" after it, "again" after the
             \* call on its own output
  result,    \* normalizePoint: what the call produced
  variant,       \* the MapView file under study: "part_000" or "MapView.jsx"
  routeIdToShow, \* MapView: the routeIdToShow prop
  routeCoords,   \* MapView.jsx: useState([])
  mvBuses,       \* MapView.jsx: useState([]), the cell named buses there
  lastRoutes     \* the body the routes handler of MapView.jsx received last

pollVars == <<page, inst, gen, busId, timers, inflight, nextSeq, nextGen,
              buses, etaData, error, rawBuses, rawRoutes, lastResp, failedSeq>>
normVars == <<raw, pc, result>>
mapVars == <<variant, routeIdToShow, routeCoords, mvBuses, lastRoutes>>
vars == <<pollVars, normVars, mapVars>>

cells == <<buses, etaData, error, rawBuses, rawRoutes>>

\* ------------------------------------------------------------------ requests
\* the k-th request issued by the running handler
NewReq(v, slot, b, g, i, k) ==
  [seq |-> nextSeq + k, view |-> v, slot |-> slot, busId |-> b, gen |-> g, inst |-> i]

\* fetchBuses giving up once a request of the effect run has failed
fetchBusesUnlessFailed(v, g, i) ==
  IF failedSeq > 0 THEN {} ELSE {NewReq(v, "buses", "none", g, i, 0)}

\* fetchBuses() of LiveTrackingPage and of AdminBusListPage up to the await
fetchBuses(v, g, i) == {NewReq(v, "buses", "none", g, i, 0)}

\* fetchETA() up to the fetch: no request without a busId
fetchETA(b, g, i) ==
  IF b = "none" THEN {} ELSE {NewReq("EtaView", "etaData", b, g, i, 0)}

\* the two mount effects of MapView
loadBusesAndRoutes(g, i) ==
  {NewReq("MapView", "rawBuses", "none", g, i, 0),
   NewReq("MapView", "rawRoutes", "none", g, i, 1)}

\* the interval a polling effect run sets; its callback closes over busId
Interval(v, b, g, i) == [view |-> v, busId |-> b, gen |-> g, inst |-> i]

\* the requests a mount of v issues
MountFetches(v, b, g) ==
  CASE v \in AxiosViews -> fetchBuses(v, g, g)
    [] v = "EtaView" -> fetchETA(b, g, g)
    [] OTHER -> loadBusesAndRoutes(g, g)

\* the interval a mount of v sets
MountTimers(v, b, g) ==
  IF v = "MapView" THEN {} ELSE {Interval(v, b, g, g)}

\* a cleanup that clears nothing
ClearIntervalLeak(ts, g) == ts

\* clearInterval(interval) of the cleanup of effect run g
ClearInterval(ts, g) == {t \in ts : t.gen # g}

\* ------------------------------------------------------------------ actions
PollInit ==
  /\ page = "none" /\ inst = 0 /\ gen = 0 /\ busId = "none"
  /\ timers = {} /\ inflight = {}
  /\ nextSeq = 1 /\ nextGen = 1
  /\ buses = [v \in AxiosViews |-> NoPayload]
  /\ etaData = NoPayload /\ error = "null"
  /\ rawBuses = NoPayload /\ rawRoutes = NoPayload
  /\ lastResp = [seq |-> 0, kind |-> "none", inst |-> 0, gen |-> 0, view |-> "none"]
  /\ failedSeq = 0

\* the router mounts view v (EtaView with URL parameter b): its state is
\* initialised and its mount effects run
Mount(v, b) ==
  /\ page = "none"
  /\ nextGen <= MaxMounts
  /\ (v = "EtaView") = (b \in BusIds)
  /\ LET reqs == MountFetches(v, b, nextGen) IN
       /\ nextSeq + Cardinality(reqs) - 1 <= MaxReq
       /\ inflight' = inflight \cup reqs
       /\ nextSeq' = nextSeq + Cardinality(reqs)
  /\ timers' = timers \cup MountTimers(v, b, nextGen)
  /\ page' = v /\ inst' = nextGen /\ gen' = nextGen /\ nextGen' = nextGen + 1
  /\ busId' = b
  /\ failedSeq' = 0
  /\ UNCHANGED <<cells, lastResp, normVars, mapVars>>

\* the router unmounts the view: the effect cleanup runs and the component's
\* state is gone
Unmount ==
  /\ page # "none"
  /\ timers' = ClearInterval(timers, gen)
  /\ page' = "none" /\ inst' = 0 /\ gen' = 0 /\ busId' = "none"
  /\ buses' = [v \in AxiosViews |-> NoPayload]
  /\ etaData' = NoPayload /\ error' = "null"
  /\ rawBuses' = NoPayload /\ rawRoutes' = NoPayload
  /\ failedSeq' = 0
  /\ UNCHANGED <<inflight, nextSeq, nextGen, lastResp, normVars, mapVars>>

\* EtaView: the URL parameter changes while the view stays mounted; the effect
\* with dependency [busId] is cleaned up and run again
ChangeBusId(b) ==
  /\ page = "EtaView"
  /\ b \in BusIds /\ b # busId
  /\ nextGen <= MaxMounts
  /\ nextSeq <= MaxReq
  /\ busId' = b
  /\ inflight' = inflight \cup fetchETA(b, nextGen, inst)
  /\ nextSeq' = nextSeq + 1
  /\ timers' = ClearInterval(timers, gen) \cup {Interval("EtaView", b, nextGen, inst)}
  /\ gen' = nextGen /\ nextGen' = nextGen + 1
  /\ failedSeq' = 0
  /\ UNCHANGED <<page, inst, cells, lastResp, normVars, mapVars>>

\* Tick waiting for the requests of its effect run to settle
TickWhenIdle(t) ==
  /\ t \in timers
  /\ nextSeq <= MaxReq
  /\ \A r \in inflight : r.gen # t.gen
  /\ inflight' = inflight \cup
       (IF t.view = "EtaView" THEN fetchETA(t.busId, t.gen, t.inst)
                              ELSE fetchBuses(t.view, t.gen, t.inst))
  /\ nextSeq' = nextSeq + 1
  /\ UNCHANGED <<page, inst, gen, busId, timers, nextGen, cells, lastResp,
                 failedSeq, normVars, mapVars>>

\* the interval t fires: its callback issues one fetch
Tick(t) ==
  /\ t \in timers
  /\ nextSeq <= MaxReq
  /\ inflight' = inflight \cup
       (IF t.view = "EtaView" THEN fetchETA(t.busId, t.gen, t.inst)
                              ELSE fetchBuses(t.view, t.gen, t.inst))
  /\ nextSeq' = nextSeq + 1
  /\ UNCHANGED <<page, inst, gen, busId, timers, nextGen, cells, lastResp,
                 failedSeq, normVars, mapVars>>

\* AdminBusListPage.handleDelete after a confirmed, successful delete
handleDelete ==
  /\ page = "AdminBusListPage"
  /\ nextSeq <= MaxReq
  /\ inflight' = inflight \cup fetchBuses(page, gen, inst)
  /\ nextSeq' = nextSeq + 1
  /\ UNCHANGED <<page, inst, gen, busId, timers, nextGen, cells, lastResp,
                 failedSeq, normVars, mapVars>>

\* what the continuation of request r does to the component's state when the
\* response is of the given kind
ApplyBuses(r, kind) ==
  LET p == AxiosGet(kind, r) IN
  /\ buses' = IF p.settled = "resolved"
                THEN [buses EXCEPT ![r.view] = p.value]
                ELSE buses
  /\ UNCHANGED <<etaData, error, rawBuses, rawRoutes>>

ApplyEta(r, kind) ==
  LET p == FetchJson(kind, r) IN
  /\ etaData' = IF p.settled = "resolved" THEN p.value ELSE etaData
  /\ error' = IF p.settled = "resolved" THEN "null" ELSE "Could not fetch ETA"
  /\ UNCHANGED <<buses, rawBuses, rawRoutes>>

ApplyMap(r, kind) ==
  LET p == FetchJson(kind, r) IN
  /\ rawBuses' = IF p.settled = "resolved" /\ r.slot = "rawBuses"
                   THEN p.value ELSE rawBuses
  /\ rawRoutes' = IF p.settled = "resolved" /\ r.slot = "rawRoutes"
                    THEN p.value ELSE rawRoutes
  /\ UNCHANGED <<buses, etaData, error>>

\* the setters of request r's continuation reach a component that is mounted;
\* a state update of an unmounted component is dropped by React
SetterReaches(r) == r.inst = inst

\* request r settles with a response of the given kind
Complete(r, kind) ==
  /\ r \in inflight
  /\ inflight' = inflight \ {r}
  /\ lastResp' = [seq |-> r.seq, kind |-> kind, inst |-> r.inst, gen |-> r.gen,
                  view |-> r.view]
  /\ failedSeq' = IF kind \in Failures /\ r.gen = gen /\ r.seq > failedSeq
                    THEN r.seq ELSE failedSeq
  /\ IF SetterReaches(r)
       THEN CASE r.view \in AxiosViews -> ApplyBuses(r, kind)
              [] r.view = "EtaView" -> ApplyEta(r, kind)
              [] OTHER -> ApplyMap(r, kind)
       ELSE UNCHANGED cells
  /\ UNCHANGED <<page, inst, gen, busId, timers, nextSeq, nextGen, normVars, mapVars>>

\* ------------------------------------------------------------------ rendering
\* the payload view v displays
Shown(v) == IF v = "EtaView" THEN etaData ELSE buses[v]

\* EtaView's render: the error notice replaces everything, then the loading
\* notice, then the table of etaData
EtaRender ==
  IF error # "null" THEN [screen |-> "error", of |-> NoPayload]
  ELSE IF etaData = NoPayload THEN [screen |-> "loading", of |-> NoPayload]
  ELSE [screen |-> "table", of |-> etaData]

\* the views that poll on an interval
PollViews == Views \ {"MapView"}

\* ------------------------------------------------------------------ claims
\* C1: for two requests A and B of the same poller with A issued before B, once
\* B's response is displayed a later response to A is discarded: the displayed
\* payload stays B's.
C1_LateResultDiscarded ==
  [][\A r \in inflight :
       (/\ r \notin inflight'
        /\ r.view \in PollViews
        /\ Shown(r.view).gen = r.gen
        /\ Shown(r.view).seq > r.seq)
       => Shown(r.view)' = Shown(r.view)]_vars

\* C2: a request whose poller was cancelled (its effect run cleaned up) before
\* it settles changes neither the payload nor the error state when it settles.
C2_NoResultAfterCancel ==
  [][\A r \in inflight :
       (r \notin inflight' /\ r.gen # gen) => UNCHANGED cells]_vars

\* C3: a mounted polling view owns at most one active interval, every active
\* interval belongs to the pending effect run of the mounted view (so a cleared
\* interval issues no fetch), and no interval is active after unmount.
C3_TimerOwnership ==
  /\ Cardinality(timers) <= 1
  /\ \A t \in timers :
       /\ t.view = page /\ t.inst = inst /\ t.gen = gen /\ t.busId = busId
  /\ page \in {"none", "MapView"} => timers = {}
  /\ page \in PollViews => timers # {}

\* C3 witness: EtaView after a busId change, with exactly the new interval.
C3_Witness ==
  /\ page = "EtaView" /\ gen > inst
  /\ timers = {Interval("EtaView", busId, gen, inst)}

\* C4: a failed tick (network error, non-2xx, unparsable body) leaves the last
\* successfully applied payload of every poller unchanged.
C4_FailedTickKeepsPayload ==
  [][(lastResp' # lastResp /\ lastResp'.kind \in Failures)
       => /\ \A v \in AxiosViews : buses[v].kind = "data" => buses'[v] = buses[v]
          /\ etaData.kind = "data" => etaData' = etaData
          /\ rawBuses.kind = "data" => rawBuses' = rawBuses
          /\ rawRoutes.kind = "data" => rawRoutes' = rawRoutes]_vars

\* a step in which an interval fires (or handleDelete refreshes): the request
\* counter advances and no effect runs
IsTickStep == nextSeq' = nextSeq + 1 /\ gen' = gen

C6_EtaKeepsLastGood ==
  [][(/\ page = "EtaView"
      /\ EtaRender = [screen |-> "table", of |-> etaData]
      /\ etaData.kind = "data"
      /\ lastResp' # lastResp /\ lastResp'.kind \in Failures)
       => EtaRender' = EtaRender]_vars

NormIdle ==
  /\ raw = Undefined
  /\ pc = "input" /\ result = [kind |-> "none"]

\* no map view is under study
MapIdle ==
  /\ variant = "none"
  /\ routeIdToShow = Undefined /\ routeCoords = Arr(<<>>)
  /\ mvBuses = Arr(<<>>) /\ lastRoutes = Undefined

Init == PollInit /\ NormIdle /\ MapIdle

Next ==
  \/ \E v \in Views, b \in BusIds \cup {"none"} : Mount(v, b)
  \/ Unmount
  \/ \E b \in BusIds : ChangeBusId(b)
  \/ \E t \in timers : Tick(t)
  \/ handleDelete
  \/ \E r \in inflight, kind \in ResponseKinds : Complete(r, kind)

Spec == Init /\ [][Next]_vars


\* ------------------------------------------------------------------ inputs of normalizePoint
\* the numeric strings of the inputs, each with the number of units it denotes
NumericStrings ==
  { [s |-> <<"1", "2", ".", "5">>, n |-> 125000000],
    [s |-> <<" ", "7", "7", ".", "2", "5", " ">>, n |-> 772500000],
    [s |-> <<"-", "9", "1">>, n |-> -910000000],
    [s |-> <<"0">>, n |-> 0],
    [s |-> <<"\t", "-", "4", "5", ".", "0", "0", "0", "0", "0", "0", "1", "\t">>,
     n |-> -450000001],
    [s |-> <<"1", "8", "0">>, n |-> 1800000000],
    [s |-> <<"+", "9", "0", ".", "0">>, n |-> 900000000],
    [s |-> <<".", "5">>, n |-> 5000000],
    [s |-> <<"1", "2", "0", ".">>, n |-> 1200000000] }

\* strings that are no number
JunkStrings ==
  { <<>>, <<" ", " ">>, <<"a", "b", "c">>, <<"1", "2", "a">>, <<"1", " ", "2">>,
    <<"-">>, <<".">>, <<"1", ".", "2", ".", "3">>, <<"-", "-", "1">> }

\* the numbers of the inputs, in units: inside, on and just outside the bounds
NumberValues ==
  { 0, 125000000, -450000000, 900000000, 900000001, -900000000, 910000000,
    1200000000, 1800000000, 1800000001, -1800000000, 2000000000, -2000000000 }

\* nested points, as the value of a longitude field
NestedValues ==
  { Obj([k \in {"lat", "lng"} |-> IF k = "lat" THEN Num(125000000) ELSE Num(772500000)]),
    Obj([k \in {"lat", "lng"} |-> IF k = "lat" THEN Num(1200000000) ELSE Str(<<"4", "5">>)]),
    Obj([k \in {"lat"} |-> Num(125000000)]),
    Obj(<<>>) }

\* the values of a point with one alias per coordinate
SingleValues ==
  {Num(n) : n \in NumberValues}
    \cup {Str(e.s) : e \in NumericStrings}
    \cup {Str(s) : s \in JunkStrings}
    \cup {Str(<<"I", "n", "f", "i", "n", "i", "t", "y">>)}
    \cup {Null, Bool(TRUE), Arr(<<>>), Arr(<<Str(<<"7">>)>>)}
    \cup NestedValues

\* the values of a point with several aliases per coordinate
SeveralValues == {Num(0), Str(<<" ", "7", "7", ".", "2", "5", " ">>), Null}

KeySet(keys) == {keys[i] : i \in 1..Len(keys)}

\* the ways one coordinate is given: no alias, one alias, or up to MaxKeys
Sides(keys) ==
  UNION { [K -> IF Cardinality(K) = 1 THEN SingleValues ELSE SeveralValues] :
            K \in {K \in SUBSET KeySet(keys) : Cardinality(K) <= MaxKeys} }

\* the arguments that are no plain object
NonObjects ==
  { Undefined, Null, Bool(FALSE), Bool(TRUE), Num(0), Num(125000000),
    Str(<<>>), Str(<<"1", "2", ".", "5">>), Arr(<<>>),
    Arr(<<Num(125000000), Num(772500000)>>) }

Inputs == NonObjects \cup {Obj(l @@ g) : l \in Sides(LatKeys), g \in Sides(LngKeys)}

\* ------------------------------------------------------------------ normalizePoint called
NormInit ==
  /\ raw \in Inputs
  /\ pc = "input" /\ result = [kind |-> "none"]

\* normalizePoint(raw) runs
Call ==
  /\ pc = "input"
  /\ result' = normalizePoint(raw)
  /\ pc' = "done"
  /\ UNCHANGED <<raw, pollVars, mapVars>>

\* the point a call returned, as an argument of the next call
AsRaw(p) == Obj([k \in {"lat", "lng"} |-> IF k = "lat" THEN p.lat ELSE p.lng])

\* normalizePoint runs on the point it returned
CallAgain ==
  /\ pc = "done" /\ result.kind = "point"
  /\ raw' = AsRaw(result)
  /\ result' = normalizePoint(AsRaw(result))
  /\ pc' = "again"
  /\ UNCHANGED <<pollVars, mapVars>>

InitNorm == PollInit /\ NormInit /\ MapIdle

NextNorm == Call \/ CallAgain

SpecNorm == InitNorm /\ [][NextNorm]_vars

\* ------------------------------------------------------------------ claims on normalizePoint
\* the number a value of the inputs denotes: a number itself, a numeric string
\* the number it is listed with
Denotes(v) ==
  IF v.t = "number" THEN v
  ELSE IF v.t = "string" /\ \E e \in NumericStrings : e.s = v.s
    THEN Num((CHOOSE e \in NumericStrings : e.s = v.s).n)
  ELSE [t |-> "none"]

\* the aliases of keys that o has, and the one first in priority
Present(o, keys) == {i \in 1..Len(keys) : keys[i] \in DOMAIN o.f}
FirstPresent(o, keys) ==
  keys[CHOOSE i \in Present(o, keys) : \A j \in Present(o, keys) : i <= j]

\* o gives each coordinate by at least one alias, and every alias it has holds
\* a number or a numeric string
NumericInput(o) ==
  /\ o.t = "object"
  /\ Present(o, LatKeys) # {} /\ Present(o, LngKeys) # {}
  /\ \A k \in DOMAIN o.f : Denotes(o.f[k]).t = "number"

GivenLat(o) == Denotes(o.f[FirstPresent(o, LatKeys)])
GivenLng(o) == Denotes(o.f[FirstPresent(o, LngKeys)])

\* C7: normalizePoint never throws: every call returns a point or null.
C7_NeverThrows == pc = "done" => result.kind \in {"point", "null"}

\* C8: a returned point is a pair of finite numbers with |lat| <= 90 and
\* |lng| <= 180, and a numeric pair that is out of these bounds after the one
\* swap attempt yields null.
C8_ResultInBounds ==
  pc = "done" =>
    /\ result.kind = "point" =>
         /\ result.lat.k = "fin" /\ result.lng.k = "fin"
         /\ result.lat.n <= 90 * Scale /\ result.lat.n >= -90 * Scale
         /\ result.lng.n <= 180 * Scale /\ result.lng.n >= -180 * Scale
    /\ NumericInput(raw) =>
         LET a == GivenLat(raw)
             b == GivenLng(raw)
             swap == AbsGt(a, 90 * Scale) /\ AbsLe(b, 90 * Scale)
             lat == IF swap THEN b ELSE a
             lng == IF swap THEN a ELSE b
         IN (~AbsLe(lat, 90 * Scale) \/ ~AbsLe(lng, 180 * Scale))
              => result = ReturnsNull

\* C8 witness: both coordinates exceed their bounds and the call returned null.
C8_Witness ==
  /\ pc = "done" /\ NumericInput(raw)
  /\ AbsGt(GivenLat(raw), 90 * Scale) /\ AbsGt(GivenLng(raw), 180 * Scale)
  /\ result = ReturnsNull

\* C9: an in-range pair (a, b), given under any alias of latitude and any alias
\* of longitude as numbers or as numeric strings with surrounding white space,
\* is returned as {lat: a, lng: b}; of several aliases the first in priority
\* order decides.
C9_AliasesResolve ==
  (/\ pc = "done" /\ NumericInput(raw)
   /\ AbsLe(GivenLat(raw), 90 * Scale) /\ AbsLe(GivenLng(raw), 180 * Scale))
    => result = Point(GivenLat(raw), GivenLng(raw))

\* C9 witness: latitude under two aliases with different values, longitude as a
\* padded string under a capitalised alias, and the first alias returned.
C9_Witness ==
  /\ pc = "done" /\ NumericInput(raw)
  /\ DOMAIN raw.f = {"latitude", "Lat", "Longitude"}
  /\ raw.f["latitude"] = Num(0)
  /\ raw.f["Lat"] = Str(<<" ", "7", "7", ".", "2", "5", " ">>)
  /\ raw.f["Longitude"] = Str(<<" ", "7", "7", ".", "2", "5", " ">>)
  /\ result = Point(Num(0), Num(772500000))

\* C10: with |lat| > 90 and |lng| <= 90 the call returns the swapped pair when
\* that is within bounds and null otherwise; with |lat| <= 90 nothing is
\* swapped.
C10_SwapHeuristic ==
  (pc = "done" /\ NumericInput(raw)) =>
    LET a == GivenLat(raw)
        b == GivenLng(raw)
    IN /\ (AbsGt(a, 90 * Scale) /\ AbsLe(b, 90 * Scale))
            => result = IF AbsLe(a, 180 * Scale) THEN Point(b, a) ELSE ReturnsNull
       /\ AbsLe(a, 90 * Scale)
            => result = IF AbsLe(b, 180 * Scale) THEN Point(a, b) ELSE ReturnsNull

\* C10 witness: lat 120 and lng 12.5 came back as lat 12.5 and lng 120.
C10_Witness ==
  /\ pc = "done" /\ NumericInput(raw)
  /\ GivenLat(raw) = Num(1200000000) /\ GivenLng(raw) = Num(125000000)
  /\ result = Point(Num(125000000), Num(1200000000))

\* the value o gives a coordinate under the one alias it has of it, undefined
\* when it has none
SoleValue(o, keys) ==
  IF Present(o, keys) = {} THEN Undefined ELSE o.f[FirstPresent(o, keys)]

\* v is missing, null, or a string that is no number: the empty string and
\* the strings of white space are among them
NotACoordinate(v) ==
  v.t \in {"undefined", "null"} \/ (v.t = "string" /\ v.s \in JunkStrings)

\* o has at most one alias per coordinate and is not in the nested format
FlatInput(o) ==
  /\ o.t = "object"
  /\ Cardinality(Present(o, LatKeys)) <= 1 /\ Cardinality(Present(o, LngKeys)) <= 1
  /\ SoleValue(o, LngKeys).t # "object"

\* C11: normalizePoint returns null whenever the latitude or the longitude is
\* missing (no alias, or an alias holding null) or is a string that is no
\* number after trimming: a non-numeric, an empty or a blank string.
C11_MissingOrJunkIsNull ==
  (/\ pc = "done" /\ FlatInput(raw)
   /\ (NotACoordinate(SoleValue(raw, LatKeys)) \/ NotACoordinate(SoleValue(raw, LngKeys))))
    => result = ReturnsNull

\* C12: normalizePoint is idempotent on its output: called on a point it
\* returned, it returns that point.
C12_Idempotent ==
  pc = "again" => result = Point(raw.f["lat"], raw.f["lng"])

\* C12 witness: the swapped pair of lat 120 and lng 12.5 went through a second
\* call and came back unchanged.
C12_Witness ==
  /\ pc = "again"
  /\ raw = AsRaw(Point(Num(125000000), Num(1200000000)))
  /\ result = Point(Num(125000000), Num(1200000000))


\* ------------------------------------------------------------------ routeCoords
\* the tolerance of the duplicate filter, 1e-6 degree
Epsilon == Scale \div 1000000

\* Array.isArray(v)
IsArray(v) == v.t = "array"

\* Math.abs(a - b) < 1e-6 for two finite numbers
NearCoord(a, b) == a.n < b.n + Epsilon /\ b.n < a.n + Epsilon

\* Near with || in place of &&
NearEither(prev, p) == NearCoord(prev.lat, p.lat) \/ NearCoord(prev.lng, p.lng)

\* the test of the duplicate filter on a point and the element before it
Near(prev, p) == NearCoord(prev.lat, p.lat) /\ NearCoord(prev.lng, p.lng)

\* .filter(Boolean) on the results of normalizePoint: null is dropped
FilterBoolean(arr) == SelectSeq(arr, LAMBDA r : r.kind = "point")

\* the duplicate filter from index i on: arr is the array being filtered, so
\* arr[i - 1] is the element before p in it, kept or not
RECURSIVE FilterDuplicates(_, _)
FilterDuplicates(arr, i) ==
  IF i > Len(arr) THEN <<>>
  ELSE (IF i = 1 \/ ~Near(arr[i - 1], arr[i]) THEN <<arr[i]>> ELSE <<>>)
         \o FilterDuplicates(arr, i + 1)

\* what the memo yields: a list of points, or the exception of a callback
Polyline(pts) == [kind |-> "list", pts |-> pts]

\* route.coordinates.map(normalizePoint)
MapNormalize(coordinates) ==
  [i \in 1..Len(coordinates.e) |-> normalizePoint(coordinates.e[i])]

\* the routeCoords memo of part_000 as a function of route
routeCoordsOf(route) ==
  IF Falsy(route) \/ ~IsArray(Get(route, "coordinates")) THEN Polyline(<<>>)
  ELSE
    LET mapped == MapNormalize(Get(route, "coordinates"))
    IN IF \E i \in 1..Len(mapped) : mapped[i] = Throws THEN Throws
       ELSE Polyline(FilterDuplicates(FilterBoolean(mapped), 1))

\* ------------------------------------------------------------------ inputs of routeCoords
\* the longest coordinate list
MaxLen == 4

\* the raw point {lat, lng} of two numbers of units
RawPoint(lat, lng) ==
  Obj([k \in {"lat", "lng"} |-> IF k = "lat" THEN Num(lat) ELSE Num(lng)])

\* the entries of the coordinate lists: (1, 1), points within the tolerance
\* of it in both coordinates or in one, (2, 2), (1, 1) under other aliases as
\* strings, and entries that are no point
CoordEntries ==
  { RawPoint(10000000, 10000000), RawPoint(10000001, 10000001),
    RawPoint(10000006, 10000000), RawPoint(10000012, 10000000),
    RawPoint(9999995, 10000000), RawPoint(10000000, 10000010),
    RawPoint(20000000, 20000000),
    Obj([k \in {"latitude", "Lng"} |->
           IF k = "latitude" THEN Str(<<"1">>) ELSE Str(<<" ", "1", ".", "0", " ">>)]),
    Obj([k \in {"lat", "lng"} |->
           IF k = "lat" THEN Str(<<"a", "b", "c">>) ELSE Num(10000000)]),
    Null,
    Obj([k \in {"Lng"} |-> Null]) }

SeqsUpTo(S, n) == UNION {[1..k -> S] : k \in 0..n}

\* a route object with the given coordinates field
RouteWith(id, coordinates) ==
  Obj([k \in {"id", "coordinates"} |-> IF k = "id" THEN Str(id) ELSE coordinates])

\* the values of route: no route found, a route without a coordinate array,
\* and a route with a list of up to MaxLen entries
RouteInputs ==
  { Null, Obj([k \in {"id"} |-> Str(<<"r", "1">>)]),
    RouteWith(<<"r", "1">>, Null), RouteWith(<<"r", "1">>, Str(<<"1", ",", "1">>)),
    RouteWith(<<"r", "1">>, RawPoint(10000000, 10000000)) }
    \cup {RouteWith(<<"r", "1">>, Arr(l)) : l \in SeqsUpTo(CoordEntries, MaxLen)}

RouteInit ==
  /\ raw \in RouteInputs
  /\ pc = "input" /\ result = [kind |-> "none"]

\* the routeCoords memo runs on route
Sanitize ==
  /\ pc = "input"
  /\ result' = routeCoordsOf(raw)
  /\ pc' = "done"
  /\ UNCHANGED <<raw, pollVars, mapVars>>

InitRoute == PollInit /\ RouteInit /\ MapIdle

NextRoute == Sanitize

SpecRoute == InitRoute /\ [][NextRoute]_vars

\* ------------------------------------------------------------------ claims on routeCoords
\* route has a coordinate array
HasCoordinates(route) == route.t = "object" /\ IsArray(Get(route, "coordinates"))

\* the entries of a coordinate array
Entries(route) == Get(route, "coordinates").e

\* the points of the entries normalizePoint accepts, in the order of the entries
ValidPoints(route) == FilterBoolean(MapNormalize(Get(route, "coordinates")))

Abs(x) == IF x < 0 THEN -x ELSE x

\* both coordinates of p and q differ by less than the tolerance
BothWithin(p, q) ==
  Abs(p.lat.n - q.lat.n) < Epsilon /\ Abs(p.lng.n - q.lng.n) < Epsilon

\* the walk that compares each point with the point kept last
RECURSIVE ReferenceWalk(_, _, _)
ReferenceWalk(pts, i, kept) ==
  IF i > Len(pts) THEN kept
  ELSE IF kept # <<>> /\ BothWithin(kept[Len(kept)], pts[i])
    THEN ReferenceWalk(pts, i + 1, kept)
    ELSE ReferenceWalk(pts, i + 1, Append(kept, pts[i]))

\* the elements of pts at the indices of K, in increasing order of index
AtIndices(pts, K) ==
  [k \in 1..Cardinality(K) |->
     pts[CHOOSE i \in K : Cardinality({j \in K : j < i}) = k - 1]]

\* a is b with some elements left out
RECURSIVE IsSubSeq(_, _)
IsSubSeq(a, b) ==
  IF a = <<>> THEN TRUE
  ELSE IF b = <<>> THEN FALSE
  ELSE IF Head(a) = Head(b) THEN IsSubSeq(Tail(a), Tail(b))
  ELSE IsSubSeq(a, Tail(b))

\* C13: in the list routeCoords yields no two consecutive points are within
\* 1e-6 of each other in both latitude and longitude.
C13_NoConsecutiveNear ==
  (pc = "done" /\ result.kind = "list") =>
    \A i \in 1..(Len(result.pts) - 1) : ~BothWithin(result.pts[i], result.pts[i + 1])

\* C14: routeCoords removes the same points as the walk that compares each
\* valid point with the point kept immediately before it, chains of points
\* that drift by less than the tolerance per step included.
C14_EqualsReferenceWalk ==
  (pc = "done" /\ result.kind = "list" /\ HasCoordinates(raw)) =>
    result.pts = ReferenceWalk(ValidPoints(raw), 1, <<>>)

\* C15: of the valid points the first is kept, and a later one is dropped
\* exactly when both its latitude and its longitude are within 1e-6 of the
\* valid point before it; so an equal point that is not adjacent is kept, and
\* so is a point that differs by 1e-6 or more in one coordinate.
C15_OnlyAdjacentCollapse ==
  (pc = "done" /\ result.kind = "list" /\ HasCoordinates(raw)) =>
    LET v == ValidPoints(raw)
        K == {i \in 1..Len(v) : i = 1 \/ ~BothWithin(v[i - 1], v[i])}
    IN result.pts = AtIndices(v, K)

\* C15 witness: (1,1), (1.0000001,1.0000001), (2,2), (1,1) gave
\* (1,1), (2,2), (1,1).
C15_Witness ==
  /\ pc = "done" /\ HasCoordinates(raw)
  /\ Entries(raw) = << RawPoint(10000000, 10000000), RawPoint(10000001, 10000001),
                       RawPoint(20000000, 20000000), RawPoint(10000000, 10000000) >>
  /\ result = Polyline(<< Point(Num(10000000), Num(10000000)),
                          Point(Num(20000000), Num(20000000)),
                          Point(Num(10000000), Num(10000000)) >>)

\* C16: routeCoords drops the entries normalizePoint rejects and reorders
\* nothing: the list is the valid points with some left out and begins with
\* the first valid point; one invalid entry among valid ones of which no two
\* are within the tolerance yields all the valid ones in order; an empty list,
\* a list of invalid entries and a route without a coordinate array yield the
\* empty list.
C16_OrderPreservingSubsequence ==
  pc = "done" =>
    IF HasCoordinates(raw)
    THEN LET v == ValidPoints(raw)
             n == Len(Entries(raw))
         IN /\ result.kind = "list"
            /\ IsSubSeq(result.pts, v)
            /\ v # <<>> => (result.pts # <<>> /\ result.pts[1] = v[1])
            /\ v = <<>> => result.pts = <<>>
            /\ (/\ Len(v) = n - 1
                /\ \A i, j \in 1..Len(v) : i # j => ~BothWithin(v[i], v[j]))
                 => result.pts = v
    ELSE result = Polyline(<<>>)


\* ------------------------------------------------------------------ MapView
\* the two files of the component
Variants == {"part_000", "MapView.jsx"}

\* a === b for a primitive b
StrictEquals(a, b) ==
  a = b /\ a.t \notin {"object", "array"} /\ ~(a.t = "number" /\ a.k = "nan")

\* routes.find((r) => r.id === id) from element i on; with optional chaining
\* (r?.id) a null element is passed over, without it reading its id throws
RECURSIVE FindRoute(_, _, _, _)
FindRoute(routes, id, i, optional) ==
  IF i > Len(routes.e) THEN Undefined
  ELSE LET r == routes.e[i] IN
    IF r.t \in {"undefined", "null"}
      THEN IF optional THEN FindRoute(routes, id, i + 1, optional) ELSE Throws
    ELSE IF StrictEquals(Get(r, "id"), id) THEN r
    ELSE FindRoute(routes, id, i + 1, optional)

\* the fallback centre, (12.8251353, 77.5148474)
DefaultCenter == <<Num(128251353), Num(775148474)>>

V2BMTC == Str(<<"V", "2", "B", "M", "T", "C">>)

\* MarkerIcon with the comparison inverted
MarkerIconInverted(bus_id) ==
  IF ~StrictEquals(bus_id, V2BMTC) THEN "HIGHLIGHT_ICON" ELSE "DEFAULT_ICON"

\* the icon of a marker
MarkerIcon(bus_id) ==
  IF StrictEquals(bus_id, V2BMTC) THEN "HIGHLIGHT_ICON" ELSE "DEFAULT_ICON"

\* <Marker key position icon>
Marker(bus_id, lat, lng) ==
  [key |-> bus_id, position |-> <<lat, lng>>, icon |-> MarkerIcon(bus_id)]

Markers(list) == [kind |-> "markers", list |-> list]

\* ---- part_000
\* the route memo
route ==
  IF ~IsArray(rawRoutes) THEN Throws
  ELSE LET found == FindRoute(rawRoutes, routeIdToShow, 1, TRUE)
       IN IF found = Undefined THEN Null ELSE found

polylinePositions(pts) == [i \in 1..Len(pts) |-> <<pts[i].lat, pts[i].lng>>]

center(pts) == IF Len(pts) # 0 THEN <<pts[1].lat, pts[1].lng>> ELSE DefaultCenter

\* the callback that turns a bus into one with numeric coordinates, or null
ProjectBus(b) ==
  IF b.t \in {"undefined", "null"} THEN Throws
  ELSE LET lat == ToNumber(Get(b, "latitude"))
           lng == ToNumber(Get(b, "longitude"))
       IN IF lat.k = "nan" \/ lng.k = "nan" THEN ReturnsNull
          ELSE [kind |-> "bus", bus_id |-> Get(b, "bus_id"),
                latitude |-> lat, longitude |-> lng]

\* the markers of rawBuses
busMarkers(rb) ==
  IF ~IsArray(rb) THEN Markers(<<>>)
  ELSE LET mapped == [i \in 1..Len(rb.e) |-> ProjectBus(rb.e[i])]
           kept == SelectSeq(mapped, LAMBDA m : m.kind = "bus")
       IN IF \E i \in 1..Len(mapped) : mapped[i] = Throws THEN Throws
          ELSE Markers([i \in 1..Len(kept) |->
                          Marker(kept[i].bus_id, kept[i].latitude, kept[i].longitude)])

View(c, line, markers) ==
  [kind |-> "view", center |-> c, polyline |-> line, markers |-> markers]

\* what part_000 hands to the map, or the exception its render raises
RenderPart000 ==
  IF route = Throws THEN Throws
  ELSE LET rc == routeCoordsOf(route)
           ms == busMarkers(rawBuses)
       IN IF rc = Throws \/ ms = Throws THEN Throws
          ELSE View(center(rc.pts), polylinePositions(rc.pts), ms.list)

\* ---- MapView.jsx
\* the centre, read from the first stored coordinate as it came
centerJsx(coords) ==
  IF Len(coords.e) = 0 THEN DefaultCenter
  ELSE IF coords.e[1].t \in {"undefined", "null"} THEN Throws
  ELSE <<Get(coords.e[1], "lat"), Get(coords.e[1], "lng")>>

\* the latlngs DrawRoute draws
DrawRoute(coords) ==
  IF \E i \in 1..Len(coords.e) : coords.e[i].t \in {"undefined", "null"} THEN Throws
  ELSE Polyline([i \in 1..Len(coords.e) |->
                   <<Get(coords.e[i], "lat"), Get(coords.e[i], "lng")>>])

\* the markers of buses
busMarkersJsx(bs) ==
  IF ~IsArray(bs) THEN Throws
  ELSE IF \E i \in 1..Len(bs.e) : bs.e[i].t \in {"undefined", "null"} THEN Throws
  ELSE Markers([i \in 1..Len(bs.e) |->
                  Marker(Get(bs.e[i], "bus_id"), Get(bs.e[i], "latitude"),
                         Get(bs.e[i], "longitude"))])

\* what MapView.jsx hands to the map, or the exception it raises
RenderJsx ==
  LET c == centerJsx(routeCoords)
      line == DrawRoute(routeCoords)
      ms == busMarkersJsx(mvBuses)
  IN IF c = Throws \/ line = Throws \/ ms = Throws THEN Throws
     ELSE View(c, line.pts, ms.list)

Render == IF variant = "part_000" THEN RenderPart000 ELSE RenderJsx

\* the routes handler of MapView.jsx with id the routeIdToShow of its effect
\* run: the new value of routeCoords
HandleRoutesJsx(routes, id) ==
  IF ~IsArray(routes) THEN routeCoords
  ELSE LET found == FindRoute(routes, id, 1, FALSE)
       IN IF found = Throws \/ found = Undefined THEN routeCoords
          ELSE IF IsArray(Get(found, "coordinates")) THEN Get(found, "coordinates")
          ELSE routeCoords

\* ------------------------------------------------------------------ MapView fetching
\* the most requests one mounted MapView issues
MaxFetches == 4

RouteIds == {Str(<<"r", "1">>), Str(<<"r", "2">>), Str(<<"r", "3">>)}

\* a point under the aliases latitude / longitude, as strings
AliasPoint(lat, lng) ==
  Obj([k \in {"latitude", "longitude"} |-> IF k = "latitude" THEN Str(lat) ELSE Str(lng)])

\* the route objects of the bodies: r1 with plain points, r2 with points under
\* other aliases, r3 with an entry that is no point, a null entry and a point
Route1 ==
  RouteWith(<<"r", "1">>, Arr(<< RawPoint(10000000, 10000000),
                                 RawPoint(10000001, 10000001),
                                 RawPoint(20000000, 20000000) >>))
Route2 ==
  RouteWith(<<"r", "2">>, Arr(<< AliasPoint(<<"1", "2", ".", "5">>,
                                            <<" ", "7", "7", ".", "2", "5", " ">>),
                                 RawPoint(20000000, 20000000) >>))
Route3 ==
  RouteWith(<<"r", "3">>, Arr(<< Obj([k \in {"lat", "lng"} |->
                                       IF k = "lat" THEN Str(<<"a", "b", "c">>)
                                       ELSE Num(10000000)]),
                                 Null,
                                 RawPoint(20000000, 20000000) >>))

\* the body of a non-2xx answer
ErrorBody == Obj([k \in {"detail"} |-> Str(<<"N", "o", "t", " ", "F", "o", "u", "n", "d">>)])

\* the bodies GET /routes/search answers with
RoutesBodies ==
  { Arr(<<Route1, Route2, Route3>>),
    Arr(<<Route2>>),
    Arr(<<RouteWith(<<"r", "1">>, Null), Obj([k \in {"id"} |-> Str(<<"r", "2">>)])>>),
    Arr(<<>>),
    Arr(<<Null, Route1>>),
    Arr(<<RouteWith(<<"r", "3">>, Arr(<<Obj([k \in {"Lng"} |-> Null])>>))>>),
    ErrorBody }

\* a bus record
Bus(bus_id, latitude, longitude) ==
  Obj([k \in {"bus_id", "latitude", "longitude"} |->
         IF k = "bus_id" THEN bus_id ELSE IF k = "latitude" THEN latitude ELSE longitude])

\* the bodies GET /buses/live answers with
BusesBodies ==
  { Arr(<< Bus(V2BMTC, Str(<<"1", "2", ".", "1">>), Str(<<"7", "7", ".", "2">>)),
           Bus(Str(<<"X">>), Str(<<"b", "a", "d">>), Str(<<"1">>)) >>),
    Arr(<< Bus(V2BMTC, Num(121000000), Num(772000000)),
           Bus(Str(<<"X">>), Num(125000000), Num(772500000)),
           Bus(V2BMTC, Num(122000000), Num(773000000)) >>),
    Arr(<< Bus(Str(<<"X">>), Null, Str(<<>>)),
           Bus(Str(<<"v", "2", "b", "m", "t", "c">>), Num(125000000), Num(772500000)),
           Obj([k \in {"latitude", "longitude"} |-> Num(121000000)]) >>),
    Arr(<< Bus(Str(<<"Y">>), Str(<<"I", "n", "f", "i", "n", "i", "t", "y">>), Num(10000000)) >>),
    Arr(<<>>),
    Arr(<<Null, Bus(V2BMTC, Num(121000000), Num(772000000))>>),
    ErrorBody }

\* the request with number k that variant issues for slot, with id the
\* routeIdToShow its handler closes over
MapReq(k, slot, id) == [seq |-> k, slot |-> slot, routeIdToShow |-> id]

\* a MapView is mounted: its cells are empty and its two mount effects have
\* issued their requests
MapInit ==
  /\ variant \in Variants /\ routeIdToShow \in RouteIds
  /\ page = "MapView" /\ inst = 1 /\ gen = 1 /\ busId = "none"
  /\ timers = {} /\ nextGen = 2
  /\ inflight = {MapReq(1, "buses", Undefined), MapReq(2, "routes", routeIdToShow)}
  /\ nextSeq = 3
  /\ buses = [v \in AxiosViews |-> NoPayload]
  /\ etaData = NoPayload /\ error = "null"
  /\ rawBuses = Arr(<<>>) /\ rawRoutes = Arr(<<>>)
  /\ routeCoords = Arr(<<>>) /\ mvBuses = Arr(<<>>)
  /\ lastRoutes = Undefined
  /\ lastResp = [seq |-> 0, kind |-> "none", inst |-> 0, gen |-> 0, view |-> "none"]
  /\ failedSeq = 0

mapFixed == <<page, inst, gen, busId, timers, nextGen, buses, etaData, error,
              lastResp, failedSeq, variant, normVars>>

\* the parent renders MapView with another routeIdToShow: the routes effect
\* of MapView.jsx runs again, that of part_000 does not
SetRouteIdToShow(id) ==
  /\ id # routeIdToShow
  /\ routeIdToShow' = id
  /\ IF variant = "MapView.jsx"
       THEN /\ nextSeq <= MaxFetches
            /\ inflight' = inflight \cup {MapReq(nextSeq, "routes", id)}
            /\ nextSeq' = nextSeq + 1
       ELSE UNCHANGED <<inflight, nextSeq>>
  /\ UNCHANGED <<mapFixed, rawBuses, rawRoutes, routeCoords, mvBuses, lastRoutes>>

\* the routes request r is answered with a body that parses
RoutesArrive(r, body) ==
  /\ r \in inflight /\ r.slot = "routes"
  /\ inflight' = inflight \ {r}
  /\ lastRoutes' = body
  /\ IF variant = "part_000"
       THEN rawRoutes' = body /\ UNCHANGED routeCoords
       ELSE routeCoords' = HandleRoutesJsx(body, r.routeIdToShow) /\ UNCHANGED rawRoutes
  /\ UNCHANGED <<mapFixed, routeIdToShow, nextSeq, rawBuses, mvBuses>>

\* BusesArrive with a handler that also empties the routes cell
BusesArriveClearing(r, body) ==
  /\ r \in inflight /\ r.slot = "buses"
  /\ inflight' = inflight \ {r}
  /\ IF variant = "part_000"
       THEN rawBuses' = body /\ rawRoutes' = Arr(<<>>) /\ UNCHANGED <<mvBuses, routeCoords>>
       ELSE mvBuses' = body /\ routeCoords' = Arr(<<>>) /\ UNCHANGED <<rawBuses, rawRoutes>>
  /\ UNCHANGED <<mapFixed, routeIdToShow, nextSeq, lastRoutes>>

\* the buses request r is answered with a body that parses
BusesArrive(r, body) ==
  /\ r \in inflight /\ r.slot = "buses"
  /\ inflight' = inflight \ {r}
  /\ IF variant = "part_000"
       THEN rawBuses' = body /\ UNCHANGED mvBuses
       ELSE mvBuses' = body /\ UNCHANGED rawBuses
  /\ UNCHANGED <<mapFixed, routeIdToShow, nextSeq, rawRoutes, routeCoords, lastRoutes>>

\* the request r fails, or its body does not parse: the catch handler logs
FetchFails(r) ==
  /\ r \in inflight
  /\ inflight' = inflight \ {r}
  /\ UNCHANGED <<mapFixed, routeIdToShow, nextSeq, rawBuses, rawRoutes, routeCoords,
                 mvBuses, lastRoutes>>

InitMap == MapInit /\ NormIdle

NextMap ==
  \/ \E id \in RouteIds : SetRouteIdToShow(id)
  \/ \E r \in inflight, body \in RoutesBodies : RoutesArrive(r, body)
  \/ \E r \in inflight, body \in BusesBodies : BusesArrive(r, body)
  \/ \E r \in inflight : FetchFails(r)

SpecMap == InitMap /\ [][NextMap]_vars

\* ------------------------------------------------------------------ claims on MapView
\* c is a pair of finite numbers with |lat| <= 90 and |lng| <= 180
ValidGeoPoint(c) ==
  /\ c[1].t = "number" /\ c[2].t = "number"
  /\ AbsLe(c[1], 90 * Scale) /\ AbsLe(c[2], 180 * Scale)

\* the buses cell of the variant under study
BusesCell == IF variant = "part_000" THEN rawBuses ELSE mvBuses

\* the body holds a route with the given id that has a coordinate array
HoldsRoute(body, id) ==
  /\ IsArray(body)
  /\ \E i \in 1..Len(body.e) :
       /\ body.e[i].t = "object"
       /\ Get(body.e[i], "id") = id
       /\ IsArray(Get(body.e[i], "coordinates"))

\* the bus b has a latitude and a longitude that convert to finite numbers
FiniteBus(b) ==
  /\ ToNumber(Get(b, "latitude")).k = "fin"
  /\ ToNumber(Get(b, "longitude")).k = "fin"

\* a marker and a bus record as the bus id and the position in numbers
AsPlaced(bus_id, lat, lng) == [bus_id |-> bus_id, at |-> <<ToNumber(lat), ToNumber(lng)>>]

\* the markers with the highlight icon
Highlighted(ms) == {i \in 1..Len(ms) : ms[i].icon = "HIGHLIGHT_ICON"}

\* C17: in every render of both variants the centre is the first point of the
\* polyline when there is one and (12.8251353, 77.5148474) when there is none,
\* and it is a valid GeoPoint.
C17_CenterResolution ==
  Render.kind = "view" =>
    /\ Render.center = IF Render.polyline # <<>> THEN Render.polyline[1] ELSE DefaultCenter
    /\ ValidGeoPoint(Render.center)

\* C18: when the routes body received last holds no route with the requested
\* id that has a coordinate array, the polyline is empty and the centre is
\* the default: no polyline of a route shown before stays on display.
C18_EmptyResultState ==
  (Render.kind = "view" /\ lastRoutes # Undefined /\ ~HoldsRoute(lastRoutes, routeIdToShow))
    => (Render.polyline = <<>> /\ Render.center = DefaultCenter)

\* C19: the markers are the entries of the bus list whose latitude and
\* longitude both convert to finite numbers, in the order of the list, entries
\* with the same bus_id all kept, and no other entry.
C19_MarkersAreFiniteBuses ==
  (Render.kind = "view" /\ IsArray(BusesCell)) =>
    LET b == BusesCell.e
        K == {i \in 1..Len(b) : FiniteBus(b[i])}
        kept == AtIndices(b, K)
        ms == Render.markers
    IN /\ Len(ms) = Len(kept)
       /\ \A i \in 1..Len(ms) :
            AsPlaced(ms[i].key, ms[i].position[1], ms[i].position[2])
              = AsPlaced(Get(kept[i], "bus_id"), Get(kept[i], "latitude"),
                         Get(kept[i], "longitude"))

\* C20 as stated: a marker is highlighted exactly when its bus_id is V2BMTC,
\* and exactly one marker is highlighted when that id is among the markers.
C20_ExactlyOneHighlight ==
  Render.kind = "view" =>
    LET ms == Render.markers
    IN /\ \A i \in 1..Len(ms) : (i \in Highlighted(ms)) <=> (ms[i].key = V2BMTC)
       /\ (\E i \in 1..Len(ms) : ms[i].key = V2BMTC) => Cardinality(Highlighted(ms)) = 1

\* C20 amended: a marker is highlighted exactly when its bus_id is V2BMTC and
\* has the default icon otherwise, so there are as many highlighted markers
\* as markers with that id: one when the id occurs once, several when the
\* list repeats it.
C20_HighlightByBusId ==
  Render.kind = "view" =>
    LET ms == Render.markers
    IN /\ \A i \in 1..Len(ms) :
            ms[i].icon = IF ms[i].key = V2BMTC THEN "HIGHLIGHT_ICON" ELSE "DEFAULT_ICON"
       /\ Cardinality(Highlighted(ms)) = Cardinality({i \in 1..Len(ms) : ms[i].key = V2BMTC})

\* C20 witness: two of three markers carry the id V2BMTC and both are
\* highlighted, the third is not.
C20_Witness ==
  /\ Render.kind = "view"
  /\ Len(Render.markers) = 3
  /\ Render.markers[1].key = V2BMTC /\ Render.markers[3].key = V2BMTC
  /\ Highlighted(Render.markers) = {1, 3}

\* C21: the render of MapView never raises, whatever the bodies applied hold:
\* a routes body that is no array, a null route, a null coordinate entry and a
\* null bus record are left out of what is rendered.
C21_RenderNeverRaises == Render # Throws

\* the buses body received last: both variants store every body that parses
LatestBuses == BusesCell

\* the coordinates MapView.jsx stores when, freshly mounted with id, it
\* receives body
DirectCoords(body, id) ==
  IF body = Undefined \/ ~IsArray(body) THEN Arr(<<>>)
  ELSE LET found == FindRoute(body, id, 1, FALSE)
       IN IF found = Throws \/ found = Undefined THEN Arr(<<>>)
          ELSE IF IsArray(Get(found, "coordinates")) THEN Get(found, "coordinates")
          ELSE Arr(<<>>)

\* what MapView.jsx renders from the coordinates and the buses given
RenderJsxOf(coords, bs) ==
  LET c == centerJsx(coords)
      line == DrawRoute(coords)
      ms == busMarkersJsx(bs)
  IN IF c = Throws \/ line = Throws \/ ms = Throws THEN Throws
     ELSE View(c, line.pts, ms.list)

\* C22: the render state is a function of routeIdToShow, the routes body
\* received last and the buses body received last: it is what a MapView shows
\* that was mounted with this id and received just these two bodies, whatever
\* id changes and completions came before.
C22_PureRenderState ==
  IF variant = "part_000"
    THEN rawRoutes = (IF lastRoutes = Undefined THEN Arr(<<>>) ELSE lastRoutes)
    ELSE Render = RenderJsxOf(DirectCoords(lastRoutes, routeIdToShow), LatestBuses)

\* ------------------------------------------------------------------ more claims on the pollers
\* C23: while a poller is active each tick of its interval issues exactly one
\* new fetch, whether or not earlier fetches are outstanding, and the response
\* to a later request is applied while an earlier request is still
\* outstanding.
C23_HungRequestDoesNotBlock ==
  /\ [](\A t \in timers : nextSeq <= MaxReq => ENABLED Tick(t))
  /\ [][IsTickStep =>
          /\ inflight \subseteq inflight'
          /\ Cardinality(inflight' \ inflight) = 1
          /\ \E r \in inflight' \ inflight : r.seq = nextSeq]_vars
  /\ [][\A r \in inflight :
          (/\ r \notin inflight' /\ lastResp'.kind = "ok"
           /\ r.view \in PollViews /\ r.inst = inst
           /\ \E q \in inflight : q.gen = r.gen /\ q.seq < r.seq)
          => (/\ Shown(r.view)' = Data(r)
              /\ \A q \in inflight : q.seq < r.seq => q \in inflight')]_vars

\* C23 witness: the first request of the running poller is still outstanding
\* and the response to a later request of the same poller is displayed.
C23_Witness ==
  /\ page \in PollViews
  /\ \E q \in inflight : q.gen = gen /\ q.seq < Shown(page).seq
  /\ Shown(page).kind = "data" /\ Shown(page).gen = gen
  /\ timers # {}

\* ------------------------------------------------------------------ slots of MapView
\* the polyline, the centre and the markers as the render computes them, each
\* by itself, from the cells and the id given
RouteOf(routes, id) ==
  IF ~IsArray(routes) THEN Throws
  ELSE LET found == FindRoute(routes, id, 1, TRUE)
       IN IF found = Undefined THEN Null ELSE found

PolylineOf(routes, id, coords) ==
  IF variant = "part_000"
    THEN (IF RouteOf(routes, id) = Throws THEN Throws
          ELSE routeCoordsOf(RouteOf(routes, id)))
    ELSE DrawRoute(coords)

CenterOf(routes, id, coords) ==
  IF variant = "part_000"
    THEN (IF PolylineOf(routes, id, coords) = Throws THEN Throws
          ELSE center(PolylineOf(routes, id, coords).pts))
    ELSE centerJsx(coords)

MarkersOf(rb, bs) ==
  IF variant = "part_000" THEN busMarkers(rb) ELSE busMarkersJsx(bs)

PolylinePart == PolylineOf(rawRoutes, routeIdToShow, routeCoords)
CenterPart == CenterOf(rawRoutes, routeIdToShow, routeCoords)
MarkersPart == MarkersOf(rawBuses, mvBuses)

\* the routes cell of the variant under study
RoutesCell == IF variant = "part_000" THEN rawRoutes ELSE routeCoords

\* a request of the slot settles in this step
Settles(slot) == \E r \in inflight : r.slot = slot /\ inflight' = inflight \ {r}

NestedInput(o) ==
  /\ o.t = "object"
  /\ Cardinality(Present(o, LngKeys)) = 1
  /\ LET n == SoleValue(o, LngKeys)
     IN /\ n.t = "object"
        /\ Denotes(Get(n, "lat")).t = "number" /\ Denotes(Get(n, "lng")).t = "number"
        /\ AbsLe(Denotes(Get(n, "lat")), 90 * Scale)
        /\ AbsLe(Denotes(Get(n, "lng")), 180 * Scale)

\* C25: whenever the longitude of a raw coordinate resolves to an object,
\* normalizePoint takes lat and lng from that object and returns the point
\* they denote when it is valid.
C25_NestedFallback ==
  (pc = "done" /\ NestedInput(raw)) =>
    result = Point(Denotes(Get(SoleValue(raw, LngKeys), "lat")),
                   Denotes(Get(SoleValue(raw, LngKeys), "lng")))

\* ------------------------------------------------------------------ EtaView and its busId
\* C26: in EtaView, once busId has changed, the response to a request issued
\* for the earlier busId does not change the ETA payload on display.
C26_NoPayloadOfOtherBus ==
  [][\A r \in inflight :
       (/\ r \notin inflight'
        /\ page = "EtaView" /\ r.view = "EtaView" /\ r.inst = inst
        /\ r.busId # busId)
       => etaData' = etaData]_vars

====
